---- MODULE Spec2Model ----
(***************************************************************************)
(* Request handlers of the Mechinweb site: the Zoho invoicing handlers     *)
(* (netlify zohoIntegration, netlify createPayment, the Zoho test          *)
(* function, supabase zoho-integration), the two sendEmail handlers and    *)
(* the two email test functions; and the ServicePurchase page.             *)
(* One handler process serves invocations one after the other; the vendor  *)
(* (token endpoint, invoicing API, SMTP relay) is the environment and      *)
(* answers each outbound call with any outcome it can produce.             *)
(***************************************************************************)
EXTENDS Integers, Sequences, FiniteSets, TLC

VARIABLES
  handler,      \* which handler file this process runs
  env,          \* the environment variables that are set
  nodemailerApi,\* whether the installed nodemailer has .createTransporter
  invocations,  \* invocations started so far
  pc,           \* position of the running invocation
  req,          \* the request (event) of the running invocation
  accessToken,  \* the local accessToken of the running invocation (0: undefined)
  customerId,   \* the local customerId / customer.contact_id (0: undefined)
  calls,        \* outbound calls of the running invocation, in issue order
  resp,         \* the response returned by the running invocation
  thrown,       \* the error that reached the handler's catch block
  responses,    \* responses returned by the running invocation
  sends,        \* the sendMail promises of the running invocation
  vendorInvoice,\* vendor: the invoice the invoicing API created last
  vendorContacts,\* vendor: the contacts the last search by email returned
  nextToken,    \* vendor: the next access token the token endpoint issues
  serviceId,    \* page: the route parameter
  initPc,       \* page: position of initializePage
  user,         \* page: state user
  service,      \* page: state service (id "": null)
  selectedPackage, \* page: state selectedPackage
  quantity,     \* page: state quantity
  selectedAddOns,  \* page: state selectedAddOns
  loading,      \* page: state loading
  userCurrency, \* page: state userCurrency
  convertedPricing, \* page: state convertedPricing
  convertedAddOns,  \* page: state convertedAddOns
  orders,       \* datastore: the rows of table orders
  location,     \* router: the current location
  lastClick,    \* page: what the latest run of handlePurchase did
  vendorStore,  \* vendor with unique emails: the contact id of each email (0: none)
  created,      \* vendor with unique emails: contacts created per email
  callers       \* the createZohoCustomer calls in progress

hvars == <<handler, env, nodemailerApi, invocations, pc, req, accessToken,
           customerId, calls, resp, thrown, responses, sends, vendorInvoice,
           vendorContacts, nextToken>>

pageVars == <<serviceId, initPc, user, service, selectedPackage, quantity,
              selectedAddOns, loading, userCurrency, convertedPricing,
              convertedAddOns, orders, location, lastClick>>

storeVars == <<vendorStore, created, callers>>

vars == <<hvars, pageVars, storeVars>>

\* ---------------------------------------------------------------- bounds

MaxInvocations == 2
MaxQuantity == 3
MaxSelected == 2
MaxCallers == 3

\* ------------------------------------------------------ program constants

DefaultMaxRetries == 2
TokenTimeoutZI == 15000
TokenTimeoutCP == 10000
TokenTimeoutZT == 10000
ContactsTimeout == 15000
InvoiceTimeout == 20000
NoTimeout == 0

ZohoHandlers == {"zohoIntegration", "createPayment", "testZoho", "supabaseZoho"}
EmailHandlers == {"sendEmailRetry", "sendEmail"}
TestEmailHandlers == {"testEmail", "testNodemailer"}
Handlers == ZohoHandlers \cup EmailHandlers \cup TestEmailHandlers

ZohoVars == {"ZOHO_CLIENT_ID", "ZOHO_CLIENT_SECRET", "ZOHO_REFRESH_TOKEN",
             "ZOHO_ORGANIZATION_ID"}
ZohoVarOrder == <<"ZOHO_CLIENT_ID", "ZOHO_CLIENT_SECRET", "ZOHO_REFRESH_TOKEN",
                  "ZOHO_ORGANIZATION_ID">>
EmailVars == {"EMAIL_USER", "EMAIL_PASSWORD"}

Methods == {"OPTIONS", "POST", "GET", "PUT"}

\* ------------------------------------------------------------- requests
\* body: "invalid" is not JSON, "none" is an absent body, "full" has
\* customerData and serviceItems, "noCustomer" / "noItems" lack one of them,
\* "customerOnly" has name and email at the top level.
BodyKinds == {"invalid", "none", "full", "noCustomer", "noItems", "customerOnly"}

ContactFields == {"name", "email", "subject", "message"}
EmailTypes == {"contact_form", "quote_request", "welcome_email", "payment_confirmation"}

NoMail == [type |-> "", hasData |-> FALSE, missing |-> {}]

ZohoRequest(m, p, b) ==
  [method |-> m, path |-> p, body |-> b, mail |-> NoMail, items |-> <<>>]

MailRequest(m, b, t, d, miss) ==
  [method |-> m, path |-> "/", body |-> b,
   mail |-> [type |-> t, hasData |-> d, missing |-> miss], items |-> <<>>]

RequestShapes(h) ==
  CASE h \in {"zohoIntegration"} ->
         {ZohoRequest(m, "/", "none") : m \in {"OPTIONS", "PUT"}}
         \cup {ZohoRequest("POST", "/", b) : b \in BodyKinds}
         \cup {ZohoRequest("GET", p, "none") : p \in {"/", "/zohoIntegration/invoices/7"}}
    [] h \in {"createPayment"} ->
         {ZohoRequest(m, "/", "none") : m \in {"OPTIONS", "GET", "PUT"}}
         \cup {ZohoRequest("POST", "/", b) : b \in BodyKinds}
    [] h \in {"testZoho"} ->
         {ZohoRequest(m, "/", "none") : m \in Methods}
    [] h \in {"supabaseZoho"} ->
         {ZohoRequest("OPTIONS", "/customers", "none"),
          ZohoRequest("GET", "/token", "none"),
          ZohoRequest("GET", "/invoices/7", "none"),
          ZohoRequest("GET", "/invoices", "none"),
          ZohoRequest("PUT", "/customers", "none")}
         \cup {ZohoRequest("POST", "/customers", b) : b \in {"invalid", "customerOnly"}}
         \cup {ZohoRequest("POST", "/invoices", b) : b \in {"invalid", "full", "noItems"}}
    [] h \in TestEmailHandlers ->
         {MailRequest(m, "none", "", FALSE, {}) : m \in Methods}
    [] OTHER ->
         {MailRequest(m, "none", "", FALSE, {}) : m \in {"OPTIONS", "GET", "PUT"}}
         \cup {MailRequest("POST", b, "", FALSE, {}) : b \in {"invalid", "none"}}
         \cup {MailRequest("POST", "full", "contact_form", TRUE, miss) :
                 miss \in SUBSET ContactFields}
         \cup {MailRequest("POST", "full", t, d, {}) :
                 t \in EmailTypes \cup {"newsletter"}, d \in BOOLEAN}

HasCustomerData(r) == r.body \in {"full", "noItems"}
HasServiceItems(r) == r.body \in {"full", "noCustomer"}
HasNameAndEmail(r) == r.body = "customerOnly"

\* serviceItems of a request: the second item's totalPrice is not its
\* unitPrice times its quantity
ItemA == [serviceName |-> "Email Migration", packageType |-> "basic",
          quantity |-> 2, unitPrice |-> 10, totalPrice |-> 20]
ItemB == [serviceName |-> "SSL Setup", packageType |-> "standard",
          quantity |-> 3, unitPrice |-> 7, totalPrice |-> 25]
ItemLists == {<<>>, <<ItemA>>, <<ItemB, ItemA>>}

\* the requests a handler is invoked with
Requests(h) ==
  UNION {{[r EXCEPT !.items = it] :
            it \in IF HasServiceItems(r) THEN ItemLists ELSE {<<>>}} :
         r \in RequestShapes(h)}

\* ------------------------------------------------------------- messages
\* A message is a sequence of strings: the fixed text followed by the
\* interpolated parts.
NoError == [message |-> <<>>, status |-> 0, code |-> "", vendorError |-> "",
            vendorMessage |-> ""]

PlainError(msg) == [message |-> msg, status |-> 0, code |-> "", vendorError |-> "",
                    vendorMessage |-> ""]

TypeError(what) == PlainError(<<"Cannot read properties of undefined (reading '", what, "')">>)

MsStr(ms) == CASE ms = 10000 -> "10000" [] ms = 15000 -> "15000"
               [] ms = 20000 -> "20000" [] OTHER -> "0"

\* ------------------------------------------------------ vendor outcomes
TokenOutcomes == {"ok", "noToken", "invalid_grant", "invalid_client", "other400",
                  "401", "500", "network"}
ConnTestOutcomes == {"ok", "401", "403", "500", "network"}
ContactCreateOutcomes == {"created", "exists400", "bad400", "401", "500", "network"}
ContactFindOutcomes == {"found", "empty", "500", "network"}
InvoiceOutcomes == {"accepted", "400", "500", "network"}
InvoiceGetOutcomes == {"ok", "404", "network"}

ContactIds == {101, 102}
\* response.data.contacts of a search by email that matched
ContactLists == {<<101>>, <<102>>, <<101, 102>>, <<102, 101>>}
VendorInvoices == [invoice_id : {11, 12}, invoice_number : {"INV-A", "INV-B"},
                   total : {30, 45}, status : {"sent", "draft"}]

StatusOf(o) ==
  CASE o \in {"ok", "noToken", "created", "found", "empty", "accepted"} -> 200
    [] o \in {"invalid_grant", "invalid_client", "other400", "exists400", "bad400", "400"} -> 400
    [] o = "401" -> 401
    [] o = "403" -> 403
    [] o = "404" -> 404
    [] o = "500" -> 500
    [] OTHER -> 0

StatusStr(o) ==
  CASE StatusOf(o) = 400 -> "400" [] StatusOf(o) = 401 -> "401"
    [] StatusOf(o) = 403 -> "403" [] StatusOf(o) = 404 -> "404"
    [] StatusOf(o) = 500 -> "500" [] OTHER -> "200"

\* response.data.error of the token endpoint
VendorErrorField(o) ==
  CASE o = "invalid_grant" -> "invalid_grant"
    [] o = "invalid_client" -> "invalid_client"
    [] o = "other400" -> "invalid_code"
    [] OTHER -> ""

\* response.data.message of the invoicing API
VendorMessageField(o) ==
  CASE o = "exists400" -> "The customer already exists"
    [] o = "bad400" -> "Invalid value passed for contact_name"
    [] o = "400" -> "Invalid value passed for line_items"
    [] o = "401" -> "You are not authorized to perform this operation"
    [] OTHER -> ""

\* what axios rejects with: a timeout ("timeout"), no answer at all
\* ("network") or a response with a status outside 2xx
AxiosError(o, ms) ==
  [message |-> CASE o = "timeout" -> <<"timeout of ", MsStr(ms), "ms exceeded">>
                 [] o = "network" -> <<"getaddrinfo ENOTFOUND">>
                 [] OTHER -> <<"Request failed with status code ", StatusStr(o)>>,
   status |-> StatusOf(o),
   code |-> CASE o = "timeout" -> "ECONNABORTED" [] o = "network" -> "ENOTFOUND"
              [] OTHER -> "ERR_BAD_RESPONSE",
   vendorError |-> VendorErrorField(o),
   vendorMessage |-> VendorMessageField(o)]

\* a || b on strings
OrElse(a, b) == IF a # "" THEN <<a>> ELSE b

\* ------------------------------------------------------------ responses
NoInvoice == [invoice_id |-> 0, invoice_number |-> "", payment_url |-> <<"", 0, "">>,
              total |-> 0, status |-> ""]

NoResp == [status |-> 0, success |-> "absent", error |-> <<>>, message |-> "",
           invoice |-> NoInvoice, customer |-> 0, body |-> "none"]

Preflight == [NoResp EXCEPT !.status = 200, !.body = "empty"]

\* mutant of MethodNotAllowed: the request is reported as a server error
MethodNotAllowedAsError(withSuccess) ==
  [NoResp EXCEPT !.status = 500, !.error = <<"Method not allowed">>,
                 !.success = IF withSuccess THEN "false" ELSE "absent", !.body = "json"]

\* the response to a method the handler does not serve
MethodNotAllowed(withSuccess) ==
  [NoResp EXCEPT !.status = 405, !.error = <<"Method not allowed">>,
                 !.success = IF withSuccess THEN "false" ELSE "absent", !.body = "json"]

\* whether the handler's responses carry Access-Control-Allow-Origin
CorsHeaders(h) == h # "testNodemailer"

Ok(msg) == [NoResp EXCEPT !.status = 200, !.success = "true", !.message = msg,
                          !.body = "json"]

\* ------------------------------------------------------------ step results
\* What a handler does from one await to the next: it returns a response,
\* throws into its catch block, or issues the next outbound call.
Respond(r) == [act |-> "respond", resp |-> r]
Throw(e) == [act |-> "throw", err |-> e]
Call(kind, tok, ms, arg, next) ==
  [act |-> "call", next |-> next,
   call |-> [kind |-> kind, token |-> tok, timeout |-> ms, arg |-> arg,
             items |-> <<>>, outcome |-> "pending", ret |-> 0]]
StartSends(set, type) == [act |-> "sends", set |-> set, type |-> type]
Stay == [act |-> "stay"]

\* ------------------------------------------------------ configuration
\* The variables each handler's presence check looks at.
RequiredVars(h) ==
  IF h = "supabaseZoho"
    THEN {"ZOHO_CLIENT_ID", "ZOHO_CLIENT_SECRET", "ZOHO_REFRESH_TOKEN"}
    ELSE ZohoVars

MissingVars(h, e) == RequiredVars(h) \ e

MissingList(h, e) == SelectSeq(ZohoVarOrder, LAMBDA v : v \in MissingVars(h, e))

validateZohoConfig(h, e) ==
  IF h = "supabaseZoho"
    THEN PlainError(<<"Zoho credentials not configured. Please check ZOHO_CLIENT_ID, ZOHO_CLIENT_SECRET, and ZOHO_REFRESH_TOKEN environment variables.">>)
    ELSE PlainError(<<"Missing Zoho configuration: ">> \o MissingList(h, e))

\* ------------------------------------------------------- token exchange
TokenTimeout(h) ==
  CASE h = "zohoIntegration" -> TokenTimeoutZI
    [] h = "createPayment" -> TokenTimeoutCP
    [] h = "testZoho" -> TokenTimeoutZT
    [] OTHER -> NoTimeout

ApiTimeout(h, kind) ==
  IF h = "supabaseZoho" THEN NoTimeout
  ELSE IF kind = "invoiceCreate" THEN InvoiceTimeout ELSE ContactsTimeout

\* mutant of AccessTokenOf: a token kept from the process's first exchange
AccessTokenOfStale(o, issued) == IF o = "ok" THEN 1 ELSE 0

\* the access token a handler takes from the token endpoint's answer
\* (response.data.access_token; 0 is undefined)
AccessTokenOf(o, issued) == IF o = "ok" THEN issued ELSE 0

\* whether getZohoAccessToken returns (rather than throws) on this answer
TokenAccepted(h, o) ==
  IF h = "zohoIntegration" THEN o = "ok" ELSE o \in {"ok", "noToken"}

\* mutant of getZohoAccessTokenError: every failure reported the same way
getZohoAccessTokenErrorUnmapped(h, o) ==
  PlainError(<<"Zoho token request failed: ">> \o AxiosError(o, TokenTimeout(h)).message)

\* the error getZohoAccessToken throws for the token endpoint's answer o
getZohoAccessTokenError(h, o) ==
  LET e == AxiosError(o, TokenTimeout(h)) IN
  CASE h = "zohoIntegration" ->
         IF o = "noToken"
           THEN PlainError(<<"Zoho token request failed: ", "Invalid token response: missing access_token">>)
         ELSE IF e.status = 400 THEN
           IF e.vendorError = "invalid_grant"
             THEN PlainError(<<"Zoho refresh token has expired. Please regenerate the refresh token in Zoho Developer Console.">>)
           ELSE IF e.vendorError = "invalid_client"
             THEN PlainError(<<"Invalid Zoho client credentials. Please check ZOHO_CLIENT_ID and ZOHO_CLIENT_SECRET.">>)
           ELSE PlainError(<<"Zoho token error: ", e.vendorError>>)
         ELSE IF e.status = 401
           THEN PlainError(<<"Zoho authentication failed. Please check your credentials.">>)
         ELSE PlainError(<<"Zoho token request failed: ">> \o e.message)
    [] h = "createPayment" ->
         PlainError(<<"Zoho authentication failed: ">> \o OrElse(e.vendorError, e.message))
    [] h = "supabaseZoho" ->
         IF o = "network" THEN PlainError(<<"error sending request">>)
         ELSE PlainError(<<"Failed to get Zoho access token: ", StatusStr(o), e.vendorError>>)
    [] OTHER -> e

\* ------------------------------------------------------------- invoices
PaymentUrl(h, id) ==
  IF h = "zohoIntegration"
    THEN <<"https://invoice.zoho.in/invoices/", id, "/payment">>
    ELSE <<"https://invoice.zoho.com/invoices/", id, "/payment">>

\* mutant of InvoiceSummary: the payment link built from the total
InvoiceSummarySwapped(h, invoice) ==
  [invoice_id |-> invoice.invoice_id,
   invoice_number |-> invoice.invoice_number,
   payment_url |-> PaymentUrl(h, invoice.total),
   total |-> invoice.total,
   status |-> invoice.status]

\* the invoice summary createZohoInvoice returns for the vendor's invoice
InvoiceSummary(h, invoice) ==
  [invoice_id |-> invoice.invoice_id,
   invoice_number |-> invoice.invoice_number,
   payment_url |-> PaymentUrl(h, invoice.invoice_id),
   total |-> invoice.total,
   status |-> invoice.status]

createZohoInvoiceError(h, o) ==
  LET e == AxiosError(o, InvoiceTimeout) IN
  IF h = "supabaseZoho"
    THEN IF o = "network" THEN PlainError(<<"error sending request">>)
         ELSE PlainError(<<"Failed to create Zoho invoice: ", StatusStr(o), e.vendorMessage>>)
    ELSE PlainError(<<"Invoice creation failed: ">> \o OrElse(e.vendorMessage, e.message))

\* mutant of LineItems: the item total recomputed from rate and quantity
LineItemsRecomputed(serviceItems) ==
  [k \in DOMAIN serviceItems |->
     [name |-> serviceItems[k].serviceName,
      rate |-> serviceItems[k].unitPrice,
      quantity |-> serviceItems[k].quantity,
      item_total |-> serviceItems[k].unitPrice * serviceItems[k].quantity]]

\* the line_items of the invoice payload: serviceItems.map(...)
LineItems(serviceItems) ==
  [k \in DOMAIN serviceItems |->
     [name |-> serviceItems[k].serviceName,
      rate |-> serviceItems[k].unitPrice,
      quantity |-> serviceItems[k].quantity,
      item_total |-> serviceItems[k].totalPrice]]

\* createZohoInvoice up to its request: serviceItems.map throws when the
\* request has no serviceItems
createZohoInvoice(h, r, tok, cid) ==
  IF ~HasServiceItems(r)
    THEN IF h = "supabaseZoho" THEN Throw(TypeError("map"))
         ELSE Throw(PlainError(<<"Invoice creation failed: ">> \o TypeError("map").message))
    ELSE [Call("invoiceCreate", tok, ApiTimeout(h, "invoiceCreate"), cid, "invoiceCreate")
            EXCEPT !.call.items = LineItems(r.items)]

\* ------------------------------------------------------------- contacts
MessageIncludesAlreadyExists(m) == m = "The customer already exists"

\* mutant of SearchesOnFailure: no fallback to the search
SearchesNever(h, o) == FALSE

\* whether createZohoCustomer falls back to findZohoCustomer on answer o
SearchesOnFailure(h, o) ==
  CASE h = "zohoIntegration" ->
         StatusOf(o) = 400 /\ MessageIncludesAlreadyExists(VendorMessageField(o))
    [] h = "createPayment" -> StatusOf(o) = 400
    [] h = "supabaseZoho" -> StatusOf(o) \notin {0, 200}
    [] OTHER -> FALSE

createZohoCustomerError(h, o) ==
  LET e == AxiosError(o, ContactsTimeout) IN
  CASE h = "zohoIntegration" ->
         PlainError(<<"Customer creation failed: ">> \o OrElse(e.vendorMessage, e.message))
    [] h = "supabaseZoho" -> PlainError(<<"error sending request">>)
    [] OTHER -> e

findZohoCustomerError(h, o) ==
  LET e == AxiosError(o, ContactsTimeout) IN
  CASE h = "zohoIntegration" ->
         IF o = "empty" THEN PlainError(<<"Customer lookup failed: ", "Customer not found">>)
         ELSE PlainError(<<"Customer lookup failed: ">> \o e.message)
    [] h = "createPayment" ->
         IF o = "empty" THEN PlainError(<<"Customer not found">>) ELSE e
    [] OTHER ->
         IF o = "empty" THEN PlainError(<<"Customer not found">>)
         ELSE IF o = "network" THEN PlainError(<<"error sending request">>)
         ELSE PlainError(<<"Customer not found and could not be created">>)

\* mutant of FirstContact: the last contact of the search result
LastContact(contacts) == IF Len(contacts) > 0 THEN contacts[Len(contacts)] ELSE 0

\* findZohoCustomer's result: response.data.contacts[0] (0: none)
FirstContact(contacts) == IF Len(contacts) > 0 THEN contacts[1] ELSE 0

\* createZohoCustomer up to its request: reading customerData.name throws
\* when the request has no customerData
createZohoCustomer(h, r, tok) ==
  IF h = "createPayment" /\ ~HasCustomerData(r)
    THEN Throw(TypeError("name"))
    ELSE Call("contactCreate", tok, ApiTimeout(h, "contactCreate"), 0, "contactCreate")

\* what the handler does once it holds a contact id
AfterCustomer(h, r, tok, cid) ==
  CASE h = "zohoIntegration" ->
         IF HasCustomerData(r) /\ HasServiceItems(r)
           THEN createZohoInvoice(h, r, tok, cid)
           ELSE Respond([Ok("") EXCEPT !.customer = cid])
    [] h = "createPayment" -> createZohoInvoice(h, r, tok, cid)
    [] OTHER -> Respond([NoResp EXCEPT !.status = 200, !.customer = cid, !.body = "json"])

\* ---------------------------------------------------------------- email
SmtpOutcomes == {"sent", "ECONNECTION", "EENVELOPE"}
VerifyOutcomes == {"ok", "EAUTH"}

NoSend == [state |-> "none", to |-> "", attempt |-> 0, tries |-> <<>>, delays |-> <<>>,
           error |-> "", result |-> 0]

\* the `to` of email i of a request of this type: the second email of a
\* contact form or quote request goes to the business
Recipient(type, i) ==
  IF type \in {"contact_form", "quote_request"} /\ i = 2
    THEN "contact@mechinweb.com"
  ELSE IF type = "test" THEN "EMAIL_USER"
  ELSE "submitter"

\* the messageId nodemailer reports for attempt a of send i
MessageId(i, a) == 10 * i + a

\* how many times a handler calls sendMail for one email at most
MaxRetries(h) == IF h = "sendEmailRetry" THEN DefaultMaxRetries ELSE 1

\* mutant of RetryExhausted: one attempt more before the rethrow
RetryExhaustedLate(attempt, maxRetries) == attempt = maxRetries + 1

\* the catch block of sendEmailWithRetry rethrows on the last attempt
RetryExhausted(attempt, maxRetries) == attempt = maxRetries

\* mutant of BackoffDelay: the exponent counted from 0
BackoffDelayFromZero(attempt) == (2 ^ (attempt - 1)) * 1000

\* the setTimeout delay after failed attempt number attempt, in ms
BackoffDelay(attempt) == (2 ^ attempt) * 1000

\* sendEmailWithRetry: the answer o to the attempt in flight
sendEmailWithRetry(i, s, o, maxRetries) ==
  IF o = "sent"
    THEN [s EXCEPT !.state = "ok", !.tries = Append(@, o),
                   !.result = MessageId(i, s.attempt)]
  ELSE IF RetryExhausted(s.attempt, maxRetries)
    THEN [s EXCEPT !.state = "failed", !.tries = Append(@, o), !.error = o]
  ELSE [s EXCEPT !.state = "waiting", !.tries = Append(@, o),
                 !.delays = Append(@, BackoffDelay(s.attempt))]

\* mutant of InitialSends: the business send is left out
InitialSendsCustomerOnly(type) == {1}

\* the sends a handler function starts before its await
InitialSends(type) ==
  IF type \in {"contact_form", "quote_request"} THEN {1, 2} ELSE {1}

\* mutant of ContactFieldsMissing: the presence check is gone
ContactFieldsMissingNever(missing) == FALSE

\* handleContactForm's presence check of name, email, subject, message
ContactFieldsMissing(missing) == missing # {}

credentialsMissing(e) == "EMAIL_USER" \notin e \/ "EMAIL_PASSWORD" \notin e

CredentialsError ==
  PlainError(<<"Email credentials not configured. Please set EMAIL_USER and EMAIL_PASSWORD in Netlify environment variables.">>)

MissingFieldsError ==
  PlainError(<<"Missing required fields: name, email, subject, message">>)

\* mutant of MailRoute: an unknown type is served as a single email
MailRouteNoDefault(h, r) ==
  IF ~r.mail.hasData THEN Throw(TypeError("email"))
  ELSE StartSends(InitialSends(r.mail.type), r.mail.type)

\* the switch / if chain on the request's type
MailRoute(h, r) ==
  LET m == r.mail IN
  IF m.type \in EmailTypes THEN
    IF ~m.hasData THEN Throw(TypeError("email"))
    ELSE IF h = "sendEmailRetry" /\ m.type = "contact_form"
            /\ ContactFieldsMissing(m.missing)
      THEN Throw(MissingFieldsError)
    ELSE StartSends(InitialSends(m.type), m.type)
  ELSE IF h = "sendEmailRetry"
    THEN Throw(PlainError(<<"Invalid email type: ", IF m.type = "" THEN "undefined" ELSE m.type>>))
    ELSE Throw(PlainError(<<"Invalid email type">>))

\* ----------------------------------------------------- the handlers' steps
\* exports.handler / Deno.serve from its entry to its first await
Start(h, e, api, r) ==
  CASE h = "zohoIntegration" ->
         IF r.method = "OPTIONS" THEN Respond(Preflight)
         ELSE IF MissingVars(h, e) # {} THEN Throw(validateZohoConfig(h, e))
         ELSE Call("token", 0, TokenTimeout(h), 0, "token")
    [] h = "createPayment" ->
         IF r.method = "OPTIONS" THEN Respond(Preflight)
         ELSE IF r.method # "POST" THEN Respond(MethodNotAllowed(FALSE))
         ELSE IF MissingVars(h, e) # {} THEN Throw(validateZohoConfig(h, e))
         ELSE IF r.body = "invalid" THEN Throw(PlainError(<<"Unexpected token in JSON">>))
         ELSE Call("token", 0, TokenTimeout(h), 0, "token")
    [] h = "testZoho" ->
         IF r.method = "OPTIONS" THEN Respond(Preflight)
         ELSE IF MissingVars(h, e) # {}
           THEN Respond([NoResp EXCEPT !.status = 500, !.success = "false",
                           !.error = validateZohoConfig(h, e).message, !.body = "json"])
         ELSE Call("token", 0, TokenTimeout(h), 0, "token")
    [] h = "supabaseZoho" ->
         IF r.method = "OPTIONS" THEN Respond(Preflight)
         ELSE IF MissingVars(h, e) # {} THEN Throw(validateZohoConfig(h, e))
         ELSE IF r.path = "/token" THEN Call("token", 0, TokenTimeout(h), 0, "sbToken")
         ELSE IF r.path \in {"/customers", "/invoices"} /\ r.method = "POST"
           THEN IF r.body = "invalid" THEN Throw(PlainError(<<"Unexpected token in JSON">>))
                ELSE Call("token", 0, TokenTimeout(h), 0, "token")
         ELSE IF r.path = "/invoices/7" /\ r.method = "GET"
           THEN Call("token", 0, TokenTimeout(h), 0, "token")
         ELSE Respond([NoResp EXCEPT !.status = 404, !.error = <<"Endpoint not found">>,
                         !.body = "json"])
    [] h = "sendEmailRetry" ->
         IF r.method = "OPTIONS" THEN Respond(Preflight)
         ELSE IF r.method # "POST" THEN Respond(MethodNotAllowed(TRUE))
         ELSE IF r.body = "invalid" THEN Throw(PlainError(<<"Invalid JSON in request body">>))
         ELSE IF credentialsMissing(e) THEN Throw(CredentialsError)
         ELSE Call("verify", 0, NoTimeout, 0, "verify")
    [] h = "testEmail" ->
         IF r.method = "OPTIONS" THEN Respond(Preflight)
         ELSE IF credentialsMissing(e)
           THEN Respond([NoResp EXCEPT !.status = 500, !.success = "false",
                           !.error = <<"Email credentials not configured">>, !.body = "json"])
         ELSE IF api # "createTransporter"
           THEN Throw(PlainError(<<"nodemailer.createTransporter is not a function">>))
         ELSE Call("verify", 0, NoTimeout, 0, "verify")
    [] h = "testNodemailer" ->
         IF credentialsMissing(e)
           THEN Respond([NoResp EXCEPT !.status = 500,
                           !.error = <<"Email credentials not configured.">>, !.body = "json"])
         ELSE IF api # "createTransporter"
           THEN Throw(PlainError(<<"nodemailer.createTransporter is not a function">>))
         ELSE Call("verify", 0, NoTimeout, 0, "verify")
    [] OTHER ->
         IF r.method = "OPTIONS" THEN Respond(Preflight)
         ELSE IF r.method # "POST" THEN Respond(MethodNotAllowed(FALSE))
         ELSE IF r.body \in {"invalid", "none"} THEN Throw(PlainError(<<"Unexpected token in JSON">>))
         ELSE IF credentialsMissing(e) THEN Throw(CredentialsError)
         ELSE IF api # "createTransporter"
           THEN Throw(PlainError(<<"nodemailer.createTransporter is not a function">>))
         ELSE MailRoute(h, r)

\* zohoIntegration after testZohoConnection: parse the body, then route
Route(r, tok) ==
  IF r.method = "POST" /\ r.body = "invalid"
    THEN Throw(PlainError(<<"Invalid JSON in request body">>))
  ELSE IF r.method = "POST" THEN
    IF (HasCustomerData(r) /\ HasServiceItems(r)) \/ HasNameAndEmail(r)
      THEN createZohoCustomer("zohoIntegration", r, tok)
      ELSE Throw(PlainError(<<"Invalid request data. Expected customerData and serviceItems or customer details.">>))
  ELSE IF r.method = "GET" THEN
    IF r.path = "/zohoIntegration/invoices/7"
      THEN Call("invoiceGet", tok, ContactsTimeout, 7, "invoiceGet")
      ELSE Respond(Ok("Zoho integration is working correctly"))
  ELSE Respond(MethodNotAllowed(TRUE))

\* the continuation of `await getZohoAccessToken()`; at is the await's place
OnToken(h, at, r, o, tok) ==
  IF ~TokenAccepted(h, o) THEN Throw(getZohoAccessTokenError(h, o))
  ELSE CASE h = "zohoIntegration" ->
              Call("contactList", tok, ContactsTimeout, 0, "conntest")
         [] h = "createPayment" -> createZohoCustomer(h, r, tok)
         [] h = "testZoho" -> Call("contactList", tok, ContactsTimeout, 0, "conntest")
         [] OTHER ->
              IF at = "sbToken"
                THEN Respond([NoResp EXCEPT !.status = 200, !.body = "token"])
              ELSE IF at = "findToken"
                THEN Call("contactFind", tok, NoTimeout, 0, "contactFind")
              ELSE IF r.path = "/customers"
                THEN createZohoCustomer(h, r, tok)
              ELSE IF r.path = "/invoices"
                THEN createZohoInvoice(h, r, tok, 101)
              ELSE Call("invoiceGet", tok, NoTimeout, 7, "invoiceGet")

\* the continuation of testZohoConnection / the test function's API call
OnConnTest(h, r, o, tok) ==
  LET e == AxiosError(o, ContactsTimeout) IN
  IF o = "ok"
    THEN IF h = "zohoIntegration" THEN Route(r, tok)
         ELSE Respond(Ok("Zoho configuration is working correctly"))
  ELSE IF h = "zohoIntegration" THEN
    IF e.status = 401
      THEN Throw(PlainError(<<"Zoho API authorization failed. Check organization ID and API permissions.">>))
    ELSE IF e.status = 403
      THEN Throw(PlainError(<<"Access denied. Check ZOHO_ORGANIZATION_ID and ensure API access is enabled.">>))
    ELSE Throw(PlainError(<<"Zoho API test failed: ">> \o e.message))
  ELSE Throw(e)

\* the continuation of the contact creation request
OnContactCreate(h, r, o, tok, cid) ==
  IF o = "created" THEN AfterCustomer(h, r, tok, cid)
  ELSE IF SearchesOnFailure(h, o) THEN
    IF h = "supabaseZoho"
      THEN Call("token", 0, TokenTimeout(h), 0, "findToken")
      ELSE Call("contactFind", tok, ApiTimeout(h, "contactFind"), 0, "contactFind")
  ELSE Throw(createZohoCustomerError(h, o))

\* mutant of OnContactFind: the handler goes on whatever the search gave
OnContactFindLenient(h, r, o, tok, cid) == AfterCustomer(h, r, tok, cid)

\* the continuation of the contact search request
OnContactFind(h, r, o, tok, cid) ==
  IF o = "found" THEN AfterCustomer(h, r, tok, cid)
  ELSE Throw(findZohoCustomerError(h, o))

\* the continuation of the invoice creation request
OnInvoice(h, r, o, invoice, cid) ==
  IF o = "accepted"
    THEN Respond([NoResp EXCEPT !.status = 200,
                    !.success = IF h = "supabaseZoho" THEN "absent" ELSE "true",
                    !.invoice = InvoiceSummary(h, invoice),
                    !.customer = IF h = "zohoIntegration" THEN cid ELSE 0,
                    !.body = "json"])
    ELSE Throw(createZohoInvoiceError(h, o))

\* the continuation of the invoice status request
OnInvoiceGet(h, o) ==
  IF o = "ok"
    THEN Respond([NoResp EXCEPT !.status = 200, !.body = "json",
                    !.success = IF h = "supabaseZoho" THEN "absent" ELSE "true"])
  ELSE IF h = "supabaseZoho"
    THEN IF o = "network" THEN Throw(PlainError(<<"error sending request">>))
         ELSE Throw(PlainError(<<"Invoice not found">>))
  ELSE Throw(PlainError(<<"Invoice status check failed: ">> \o AxiosError(o, ContactsTimeout).message))

\* mutant of OnVerify: the result of the verification is ignored
OnVerifyIgnored(h, r, o) == MailRoute(h, r)

\* the continuation of verifyEmailConfig
OnVerify(h, r, o) ==
  CASE h = "testEmail" ->
         IF o # "ok" THEN Throw(PlainError(<<o>>))
         ELSE IF r.method = "POST" THEN StartSends({1}, "test")
         ELSE Respond(Ok("Email configuration is working"))
    [] h = "testNodemailer" ->
         IF o # "ok" THEN Throw(PlainError(<<o>>))
         ELSE Respond(Ok("Nodemailer is configured correctly!"))
    [] OTHER ->
         IF o = "ok" THEN MailRoute(h, r)
         ELSE Throw(PlainError(<<"Email configuration invalid: ", o>>))

\* mutant of HandlerCatch: a generic message instead of the error's
HandlerCatchGeneric(h, e) ==
  [NoResp EXCEPT !.status = 500, !.success = "false",
                 !.error = <<"Internal server error">>, !.body = "json"]

\* the handler's catch block: the response for an error thrown in its try
HandlerCatch(h, e) ==
  CASE h = "supabaseZoho" ->
         [NoResp EXCEPT !.status = 500, !.error = e.message, !.body = "json"]
    [] h = "testNodemailer" ->
         [NoResp EXCEPT !.status = 500, !.success = "false", !.error = <<"Test failed.">>,
                        !.body = "json"]
    [] h = "testZoho" ->
         [NoResp EXCEPT !.status = 500, !.success = "false", !.body = "json",
            !.error =
              IF e.status # 0 THEN
                IF e.status = 400
                  THEN <<"Invalid Zoho credentials. Please check your ZOHO_CLIENT_ID, ZOHO_CLIENT_SECRET, and ZOHO_REFRESH_TOKEN.">>
                ELSE IF e.status = 401
                  THEN <<"Zoho refresh token expired. Please regenerate your refresh token.">>
                ELSE IF e.status = 403
                  THEN <<"Access denied. Please check your ZOHO_ORGANIZATION_ID and API permissions.">>
                ELSE <<"API Error ", IF e.status = 500 THEN "500" ELSE "404", e.vendorError>>
              ELSE IF e.code = "ECONNABORTED"
                THEN <<"Request timeout. Zoho API might be slow or unreachable.">>
              ELSE IF e.code = "ENOTFOUND"
                THEN <<"Network error. Cannot reach Zoho servers.">>
              ELSE e.message]
    [] OTHER ->
         [NoResp EXCEPT !.status = 500, !.success = "false", !.error = e.message,
                        !.body = "json"]

\* the continuation of Promise.all over the sends (a single awaited send
\* is the same with one promise): at is the handler's place, ss the sends
\* after send i got answer o
JoinSends(h, at, ss, i, o) ==
  IF at # "sends" THEN Stay
  ELSE IF ss[i].state = "failed" THEN Throw(PlainError(<<o>>))
  ELSE IF \A j \in DOMAIN ss : ss[j].state \in {"none", "ok"}
    THEN Respond(Ok(IF h = "testEmail" THEN "Email configuration is working"
                    ELSE "Email sent successfully"))
  ELSE Stay

\* -------------------------------------------------- the ServicePurchase page
\* Amounts are in hundredths of the currency unit.
Users == {"none", "unverified", "verified"}
Currencies == {"USD", "INR", "AUD"}
Packages == {"basic", "standard", "enterprise"}
ServiceIds == {"email-migration", "no-such-service"}
AddOnIds == {"priority-support", "backup-service", "ssl-certificate", "monitoring"}
AddOnOrder == <<"priority-support", "backup-service", "ssl-certificate", "monitoring">>

\* the price in USD of an entry of addOns
AddOnPrice(id) ==
  CASE id = "priority-support" -> 1000
    [] id = "backup-service" -> 500
    [] id = "ssl-certificate" -> 1500
    [] OTHER -> 800

\* PricingService.getService: the tiers of a known service ("enterprise" has
\* no tier here), nothing for an unknown id
ServiceKnown(id) == id = "email-migration"
TierPrice(id, p) == CASE p = "basic" -> 400 [] p = "standard" -> 1200 [] OTHER -> 0

\* convertCurrency from USD: the amount times the currency's rate
Rate(cur) == CASE cur = "INR" -> 8325 [] cur = "AUD" -> 152 [] OTHER -> 100
convertCurrency(amount, cur) == (amount * Rate(cur)) \div 100

NoService == [id |-> "", pricing |-> [p \in Packages |-> 0]]
NoPricing == [p \in {} |-> 0]
NoClick == [ran |-> FALSE, accept |-> FALSE, outcome |-> "none", rejected |-> FALSE]

\* initializePage's transformedService
transformedService(id) == [id |-> id, pricing |-> [p \in Packages |-> TierPrice(id, p)]]

\* pricing[selectedPackage] || 0
PriceOrZero(pricing, p) == IF p \in DOMAIN pricing THEN pricing[p] ELSE 0

getCurrentPrice(svc, cur, conv, pkg) ==
  IF svc.id = "" THEN 0
  ELSE PriceOrZero(IF cur = "USD" THEN svc.pricing ELSE conv, pkg)

\* convertedAddOns.find(a => a.id === addOnId), then its price or 0
getAddOnPrice(convAddOns, addOnId) ==
  LET hits == {k \in DOMAIN convAddOns : convAddOns[k].id = addOnId}
  IN IF hits = {} THEN 0
     ELSE convAddOns[CHOOSE k \in hits : \A j \in hits : k <= j].price

RECURSIVE getTotalAddOnPrice(_, _)
getTotalAddOnPrice(convAddOns, selected) ==
  IF selected = <<>> THEN 0
  ELSE getTotalAddOnPrice(convAddOns, SubSeq(selected, 1, Len(selected) - 1))
         + getAddOnPrice(convAddOns, selected[Len(selected)])

\* mutant of getTotalPrice: the add-ons are charged once, not per unit
getTotalPriceAddOnsOnce(svc, cur, conv, pkg, q, convAddOns, selected) ==
  getCurrentPrice(svc, cur, conv, pkg) * q + getTotalAddOnPrice(convAddOns, selected)

getTotalPrice(svc, cur, conv, pkg, q, convAddOns, selected) ==
  LET basePrice == getCurrentPrice(svc, cur, conv, pkg) * q
      addOnPrice == getTotalAddOnPrice(convAddOns, selected) * q
  IN basePrice + addOnPrice

\* mutant of SetIsLoadingDeclared: the component declares the setter
SetIsLoadingDeclaredAnyway == TRUE

\* whether the component declares setIsLoading, which handlePurchase calls
\* (its state has loading / setLoading only)
SetIsLoadingDeclared == FALSE

\* the row handlePurchase inserts into orders
OrderRow(id, u, svc, pkg, cur, total) ==
  [id |-> id, client_id |-> u, service_id |-> svc.id, package_type |-> pkg,
   currency |-> cur, amount |-> total, status |-> "pending"]

\* onAddOnChange: the selection with the add-on toggled
Toggle(selected, id) ==
  IF \E k \in DOMAIN selected : selected[k] = id
    THEN SelectSeq(selected, LAMBDA x : x # id)
    ELSE Append(selected, id)

\* ------------------------------------------- createZohoCustomer, repeated
Emails == {"a@example.com", "b@example.com"}

NoReply == [o |-> "none", id |-> 0, contacts |-> <<>>]

NewCaller(e) == [email |-> e, pc |-> "start", reply |-> NoReply, result |-> 0,
                 clean |-> TRUE]

\* the id the vendor gives the next contact it creates
NewContactId(store) == 101 + Cardinality({e \in Emails : store[e] # 0})

\* no createZohoCustomer call is modelled on its own
NoCallers ==
  /\ vendorStore = [e \in Emails |-> 0]
  /\ created = [e \in Emails |-> 0]
  /\ callers = <<>>

\* the page before the component is mounted
PageUnmounted ==
  /\ serviceId = "email-migration"
  /\ initPc = "unmounted"
  /\ user = "none"
  /\ service = NoService
  /\ selectedPackage = "basic"
  /\ quantity = 1
  /\ selectedAddOns = <<>>
  /\ loading = TRUE
  /\ userCurrency = "USD"
  /\ convertedPricing = NoPricing
  /\ convertedAddOns = <<>>
  /\ orders = <<>>
  /\ location = [path |-> "/purchase", id |-> 0]
  /\ lastClick = NoClick

\* ----------------------------------------------------------------- state
NoVendorInvoice == [invoice_id |-> 0, invoice_number |-> "", total |-> 0, status |-> ""]

NoSends == [i \in 1..2 |-> NoSend]

MailCall(i) == [kind |-> "sendMail", token |-> 0, timeout |-> NoTimeout, arg |-> i,
                items |-> <<>>, outcome |-> "pending", ret |-> 0]

\* the calls, in issue order, that start the sends of set
MailCalls(set) ==
  (IF 1 \in set THEN <<MailCall(1)>> ELSE <<>>) \o (IF 2 \in set THEN <<MailCall(2)>> ELSE <<>>)

\* the call in flight of this kind and argument
PendingIdx(cs, kind, arg) ==
  CHOOSE k \in DOMAIN cs : cs[k].kind = kind /\ cs[k].arg = arg /\ cs[k].outcome = "pending"

Close(cs, k, o, ret) == [cs EXCEPT ![k].outcome = o, ![k].ret = ret]

\* no invocation has started
HandlersIdle ==
  /\ invocations = 0
  /\ pc = "idle"
  /\ req = ZohoRequest("OPTIONS", "/", "none")
  /\ accessToken = 0
  /\ customerId = 0
  /\ calls = <<>>
  /\ resp = NoResp
  /\ thrown = NoError
  /\ responses = 0
  /\ sends = NoSends
  /\ vendorInvoice = NoVendorInvoice
  /\ vendorContacts = <<>>
  /\ nextToken = 1

Init ==
  /\ handler \in Handlers
  /\ env \in IF handler \in ZohoHandlers THEN SUBSET ZohoVars ELSE SUBSET EmailVars
  /\ nodemailerApi \in IF handler \in {"sendEmail"} \cup TestEmailHandlers
                         THEN {"createTransport", "createTransporter"}
                         ELSE {"createTransport"}
  /\ HandlersIdle
  /\ PageUnmounted
  /\ NoCallers

\* the effect of one step of the handler: cs are the calls and ss the
\* sends as the step found them
Apply(step, cs, ss, n) ==
  /\ pc' = CASE step.act \in {"respond", "throw"} -> "done"
             [] step.act = "call" -> step.next
             [] step.act = "sends" -> "sends"
             [] OTHER -> pc
  /\ resp' = CASE step.act = "respond" -> step.resp
               [] step.act = "throw" -> HandlerCatch(handler, step.err)
               [] step.act = "stay" -> resp
               [] OTHER -> NoResp
  /\ thrown' = CASE step.act = "throw" -> step.err
                 [] step.act = "stay" -> thrown
                 [] OTHER -> NoError
  /\ responses' = IF step.act \in {"respond", "throw"} THEN n + 1 ELSE n
  /\ calls' = CASE step.act = "call" -> Append(cs, step.call)
                [] step.act = "sends" -> cs \o MailCalls(step.set)
                [] OTHER -> cs
  /\ sends' = IF step.act = "sends"
                THEN [i \in 1..2 |-> IF i \in step.set
                                       THEN [NoSend EXCEPT !.state = "inflight", !.attempt = 1,
                                                          !.to = Recipient(step.type, i)]
                                       ELSE NoSend]
                ELSE ss

\* ---------------------------------------------------------------- actions
\* the platform invokes the handler with request r, one of Requests(handler)
Invoke(r) ==
  /\ pc \in {"idle", "done"}
  /\ invocations < MaxInvocations
  /\ invocations' = invocations + 1
  /\ req' = r
  /\ accessToken' = 0
  /\ customerId' = 0
  /\ vendorInvoice' = NoVendorInvoice
  /\ vendorContacts' = <<>>
  /\ Apply(Start(handler, env, nodemailerApi, r), <<>>, NoSends, 0)
  /\ UNCHANGED <<storeVars, pageVars, handler, env, nodemailerApi, nextToken>>

TokenStep(o) ==
  /\ pc \in {"token", "sbToken", "findToken"}
  /\ LET issued == IF o = "ok" THEN nextToken ELSE 0
         tok == AccessTokenOf(o, issued)
     IN /\ nextToken' = IF o = "ok" THEN nextToken + 1 ELSE nextToken
        /\ accessToken' = IF TokenAccepted(handler, o) THEN tok ELSE accessToken
        /\ Apply(OnToken(handler, pc, req, o, tok), Close(calls, Len(calls), o, issued),
                 sends, responses)
  /\ UNCHANGED <<storeVars, pageVars, handler, env, nodemailerApi, invocations, req, customerId,
                 vendorInvoice, vendorContacts>>

ConnTestStep(o) ==
  /\ pc = "conntest"
  /\ Apply(OnConnTest(handler, req, o, accessToken), Close(calls, Len(calls), o, 0),
           sends, responses)
  /\ UNCHANGED <<storeVars, pageVars, handler, env, nodemailerApi, invocations, req, accessToken, customerId,
                 vendorInvoice, vendorContacts, nextToken>>

ContactCreateStep(o, cid) ==
  /\ pc = "contactCreate"
  /\ customerId' = IF o = "created" THEN cid ELSE customerId
  /\ Apply(OnContactCreate(handler, req, o, accessToken, cid),
           Close(calls, Len(calls), o, IF o = "created" THEN cid ELSE 0), sends, responses)
  /\ UNCHANGED <<storeVars, pageVars, handler, env, nodemailerApi, invocations, req, accessToken,
                 vendorInvoice, vendorContacts, nextToken>>

ContactFindStep(o, contacts) ==
  /\ pc = "contactFind"
  /\ vendorContacts' = contacts
  /\ LET cid == FirstContact(contacts) IN
       /\ customerId' = IF o = "found" THEN cid ELSE customerId
       /\ Apply(OnContactFind(handler, req, o, accessToken, cid),
                Close(calls, Len(calls), o, IF o = "found" THEN cid ELSE 0), sends, responses)
  /\ UNCHANGED <<storeVars, pageVars, handler, env, nodemailerApi, invocations, req, accessToken,
                 vendorInvoice, nextToken>>

InvoiceStep(o, invoice) ==
  /\ pc = "invoiceCreate"
  /\ vendorInvoice' = IF o = "accepted" THEN invoice ELSE NoVendorInvoice
  /\ Apply(OnInvoice(handler, req, o, invoice, customerId),
           Close(calls, Len(calls), o, IF o = "accepted" THEN invoice.invoice_id ELSE 0),
           sends, responses)
  /\ UNCHANGED <<storeVars, pageVars, handler, env, nodemailerApi, invocations, req, accessToken, customerId,
                 vendorContacts, nextToken>>

InvoiceGetStep(o) ==
  /\ pc = "invoiceGet"
  /\ Apply(OnInvoiceGet(handler, o), Close(calls, Len(calls), o, 0), sends, responses)
  /\ UNCHANGED <<storeVars, pageVars, handler, env, nodemailerApi, invocations, req, accessToken, customerId,
                 vendorInvoice, vendorContacts, nextToken>>

\* the vendor answers the call in flight
TokenReply == \E o \in TokenOutcomes : TokenStep(o)
ConnTestReply == \E o \in ConnTestOutcomes : ConnTestStep(o)
ContactCreateReply ==
  \E o \in ContactCreateOutcomes : \E cid \in ContactIds :
    (o = "created" \/ cid = 101) /\ ContactCreateStep(o, cid)
ContactFindReply ==
  \E o \in ContactFindOutcomes : \E contacts \in ContactLists \cup {<<>>} :
    (o = "found" <=> contacts # <<>>) /\ ContactFindStep(o, contacts)
InvoiceReply ==
  \E o \in InvoiceOutcomes : \E invoice \in VendorInvoices :
    (o = "accepted" \/ invoice = [invoice_id |-> 11, invoice_number |-> "INV-A",
                                  total |-> 30, status |-> "sent"])
    /\ InvoiceStep(o, invoice)
InvoiceGetReply == \E o \in InvoiceGetOutcomes : InvoiceGetStep(o)

\* axios gives up on the call in flight after the call's timeout
Timeout ==
  /\ calls # <<>>
  /\ calls[Len(calls)].outcome = "pending"
  /\ calls[Len(calls)].timeout > 0
  /\ CASE pc \in {"token", "sbToken", "findToken"} -> TokenStep("timeout")
       [] pc = "conntest" -> ConnTestStep("timeout")
       [] pc = "contactCreate" -> ContactCreateStep("timeout", 101)
       [] pc = "contactFind" -> ContactFindStep("timeout", <<>>)
       [] pc = "invoiceCreate" ->
            InvoiceStep("timeout", [invoice_id |-> 11, invoice_number |-> "INV-A",
                                    total |-> 30, status |-> "sent"])
       [] pc = "invoiceGet" -> InvoiceGetStep("timeout")
       [] OTHER -> FALSE

\* the SMTP relay answers transporter.verify()
VerifyReply ==
  \E o \in VerifyOutcomes :
    /\ pc = "verify"
    /\ Apply(OnVerify(handler, req, o), Close(calls, Len(calls), o, 0), sends, responses)
    /\ UNCHANGED <<storeVars, pageVars, handler, env, nodemailerApi, invocations, req, accessToken, customerId,
                   vendorInvoice, vendorContacts, nextToken>>

\* the SMTP relay answers the sendMail attempt in flight of send i
SendMailReply(i) ==
  \E o \in SmtpOutcomes :
    /\ sends[i].state = "inflight"
    /\ LET s2 == sendEmailWithRetry(i, sends[i], o, MaxRetries(handler))
           ss == [sends EXCEPT ![i] = s2]
           cs == Close(calls, PendingIdx(calls, "sendMail", i), o, s2.result)
       IN Apply(JoinSends(handler, pc, ss, i, o), cs, ss, responses)
    /\ UNCHANGED <<storeVars, pageVars, handler, env, nodemailerApi, invocations, req, accessToken, customerId,
                   vendorInvoice, vendorContacts, nextToken>>

\* the backoff timer of send i fires: the next attempt starts
BackoffElapsed(i) ==
  /\ sends[i].state = "waiting"
  /\ sends' = [sends EXCEPT ![i].state = "inflight", ![i].attempt = @ + 1]
  /\ calls' = Append(calls, MailCall(i))
  /\ UNCHANGED <<storeVars, pageVars, handler, env, nodemailerApi, invocations, pc, req, accessToken,
                 customerId, resp, thrown, responses, vendorInvoice, vendorContacts, nextToken>>

Next ==
  \/ \E r \in Requests(handler) : Invoke(r)
  \/ TokenReply
  \/ ConnTestReply
  \/ ContactCreateReply
  \/ ContactFindReply
  \/ InvoiceReply
  \/ InvoiceGetReply
  \/ Timeout
  \/ VerifyReply
  \/ \E i \in 1..2 : SendMailReply(i)
  \/ \E i \in 1..2 : BackoffElapsed(i)

Spec == Init /\ [][Next]_vars

\* ------------------------------------------------------- the page's actions
Purchase == [path |-> "/purchase", id |-> 0]

\* the page shows the order form (neither 'Loading...' nor 'Service not found')
Rendered == ~loading /\ service.id # "" /\ location = Purchase

PageInit ==
  /\ handler = "createPayment"
  /\ env = {}
  /\ nodemailerApi = "createTransport"
  /\ HandlersIdle
  /\ serviceId \in ServiceIds
  /\ initPc = "getUser"
  /\ user = "none"
  /\ service = NoService
  /\ selectedPackage = "basic"
  /\ quantity = 1
  /\ selectedAddOns = <<>>
  /\ loading = TRUE
  /\ userCurrency = "USD"
  /\ convertedPricing = NoPricing
  /\ convertedAddOns = <<>>
  /\ orders = <<>>
  /\ location = Purchase
  /\ lastClick = NoClick
  /\ NoCallers

\* initializePage: supabase.auth.getUser() answered
GetUser ==
  /\ initPc = "getUser"
  /\ \E u \in Users : user' = u
  /\ initPc' = "detect"
  /\ UNCHANGED <<storeVars, hvars, serviceId, service, selectedPackage, quantity, selectedAddOns,
                 loading, userCurrency, convertedPricing, convertedAddOns, orders,
                 location, lastClick>>

\* initializePage from the detected currency to its next await or its end
Detect(c) ==
  /\ initPc = "detect"
  /\ userCurrency' = c
  /\ IF ~ServiceKnown(serviceId)
       THEN /\ loading' = FALSE
            /\ initPc' = "ready"
            /\ UNCHANGED <<service, convertedPricing, convertedAddOns>>
       ELSE /\ service' = transformedService(serviceId)
            /\ IF c # "USD"
                 THEN /\ initPc' = "convertPricing"
                      /\ UNCHANGED <<loading, convertedPricing, convertedAddOns>>
                 ELSE /\ convertedPricing' = service'.pricing
                      /\ convertedAddOns' = [k \in DOMAIN AddOnOrder |->
                                               [id |-> AddOnOrder[k],
                                                price |-> AddOnPrice(AddOnOrder[k])]]
                      /\ loading' = FALSE
                      /\ initPc' = "ready"
  /\ UNCHANGED <<storeVars, hvars, serviceId, user, selectedPackage, quantity, selectedAddOns,
                 orders, location, lastClick>>

\* initializePage: the three package prices were converted (or a conversion
\* failed and initializePage ends with the page still loading)
PricingConverted ==
  /\ initPc = "convertPricing"
  /\ \E ok \in BOOLEAN :
       IF ok
         THEN /\ convertedPricing' =
                   [p \in Packages |-> convertCurrency(service.pricing[p], userCurrency)]
              /\ initPc' = "convertAddOns"
         ELSE /\ initPc' = "failed"
              /\ UNCHANGED convertedPricing
  /\ UNCHANGED <<storeVars, hvars, serviceId, user, service, selectedPackage, quantity,
                 selectedAddOns, loading, userCurrency, convertedAddOns, orders,
                 location, lastClick>>

\* initializePage: the add-on prices were converted
AddOnsConverted ==
  /\ initPc = "convertAddOns"
  /\ \E ok \in BOOLEAN :
       IF ok
         THEN /\ convertedAddOns' =
                   [k \in DOMAIN AddOnOrder |->
                      [id |-> AddOnOrder[k],
                       price |-> convertCurrency(AddOnPrice(AddOnOrder[k]), userCurrency)]]
              /\ loading' = FALSE
              /\ initPc' = "ready"
         ELSE /\ initPc' = "failed"
              /\ UNCHANGED <<convertedAddOns, loading>>
  /\ UNCHANGED <<storeVars, hvars, serviceId, user, service, selectedPackage, quantity,
                 selectedAddOns, userCurrency, convertedPricing, orders, location,
                 lastClick>>

SelectPackage(p) ==
  /\ Rendered
  /\ selectedPackage' = p
  /\ UNCHANGED <<storeVars, hvars, serviceId, initPc, user, service, quantity, selectedAddOns,
                 loading, userCurrency, convertedPricing, convertedAddOns, orders,
                 location, lastClick>>

SetQuantity(q) ==
  /\ Rendered
  /\ quantity' = q
  /\ UNCHANGED <<storeVars, hvars, serviceId, initPc, user, service, selectedPackage,
                 selectedAddOns, loading, userCurrency, convertedPricing,
                 convertedAddOns, orders, location, lastClick>>

ToggleAddOn(id) ==
  /\ Rendered
  /\ Len(Toggle(selectedAddOns, id)) <= MaxSelected
  /\ selectedAddOns' = Toggle(selectedAddOns, id)
  /\ UNCHANGED <<storeVars, hvars, serviceId, initPc, user, service, selectedPackage, quantity,
                 loading, userCurrency, convertedPricing, convertedAddOns, orders,
                 location, lastClick>>

\* 'Sign in' under the disabled button
GoToLogin ==
  /\ Rendered
  /\ user = "none"
  /\ location' = [path |-> "/client/login", id |-> 0]
  /\ UNCHANGED <<storeVars, hvars, serviceId, initPc, user, service, selectedPackage, quantity,
                 selectedAddOns, loading, userCurrency, convertedPricing,
                 convertedAddOns, orders, lastClick>>

\* a click on 'Proceed to Payment' (the button is disabled without a user);
\* accept is whether the datastore would accept the insert
HandlePurchase(accept) ==
  /\ Rendered
  /\ user # "none"
  /\ IF user = "none" \/ service.id = ""
       THEN /\ lastClick' = [ran |-> TRUE, accept |-> accept, outcome |-> "returned",
                             rejected |-> FALSE]
            /\ UNCHANGED <<orders, location>>
     ELSE IF ~SetIsLoadingDeclared
       \* setIsLoading(true) throws a ReferenceError into the catch block,
       \* setIsLoading(false) in the finally block throws it again
       THEN /\ lastClick' = [ran |-> TRUE, accept |-> accept, outcome |-> "alerted",
                             rejected |-> TRUE]
            /\ UNCHANGED <<orders, location>>
     ELSE IF accept
       THEN /\ orders' = Append(orders,
                           OrderRow(Len(orders) + 1, user, service, selectedPackage,
                                    userCurrency,
                                    getTotalPrice(service, userCurrency, convertedPricing,
                                                  selectedPackage, quantity,
                                                  convertedAddOns, selectedAddOns)))
            /\ location' = [path |-> "/payment/", id |-> Len(orders) + 1]
            /\ lastClick' = [ran |-> TRUE, accept |-> accept, outcome |-> "navigated",
                             rejected |-> FALSE]
     ELSE /\ lastClick' = [ran |-> TRUE, accept |-> accept, outcome |-> "alerted",
                           rejected |-> FALSE]
          /\ UNCHANGED <<orders, location>>
  /\ UNCHANGED <<storeVars, hvars, serviceId, initPc, user, service, selectedPackage, quantity,
                 selectedAddOns, loading, userCurrency, convertedPricing,
                 convertedAddOns>>

PageNext ==
  \/ GetUser
  \/ \E c \in Currencies : Detect(c)
  \/ PricingConverted
  \/ AddOnsConverted
  \/ \E p \in Packages : SelectPackage(p)
  \/ \E q \in 1..MaxQuantity : SetQuantity(q)
  \/ \E id \in AddOnIds : ToggleAddOn(id)
  \/ GoToLogin
  \/ \E accept \in BOOLEAN : HandlePurchase(accept)

PageSpec == PageInit /\ [][PageNext]_vars

\* ------------------------------------------------------------ properties
ApiKinds == {"contactList", "contactCreate", "contactFind", "invoiceCreate", "invoiceGet"}
VendorKinds == ApiKinds \cup {"token"}

CallsOfKind(kinds) == {k \in DOMAIN calls : calls[k].kind \in kinds}

MailCallsOf(i) == {k \in DOMAIN calls : calls[k].kind = "sendMail" /\ calls[k].arg = i}

TwoSendRequest ==
  /\ handler \in EmailHandlers
  /\ pc # "idle"
  /\ req.mail.type \in {"contact_form", "quote_request"}

\* C1: sendEmailWithRetry (maxRetries = 2) calls sendMail at most twice for
\* one email; a success ends the loop and its result is the one returned;
\* after two failures the error thrown is the second attempt's.
C1_RetryAtMostTwice ==
  handler = "sendEmailRetry" =>
    \A i \in 1..2 :
      LET s == sends[i] n == Len(s.tries) IN
      /\ Cardinality(MailCallsOf(i)) <= 2
      /\ n <= Cardinality(MailCallsOf(i))
      /\ \A k \in 1..n : s.tries[k] = "sent" =>
           /\ k = n
           /\ s.state = "ok"
           /\ s.result = MessageId(i, k)
           /\ Cardinality(MailCallsOf(i)) = k
      /\ s.state = "ok" => n >= 1 /\ s.tries[n] = "sent"
      /\ (n = 2 /\ s.tries[2] # "sent") => s.state = "failed" /\ s.error = s.tries[2]
      /\ s.state = "failed" => n = 2 /\ s.tries[1] # "sent" /\ s.tries[2] # "sent"

C1_Witness ==
  /\ handler = "sendEmailRetry"
  /\ sends[1].state = "ok" /\ sends[1].tries = <<"EENVELOPE", "sent">>
  /\ sends[2].state = "failed" /\ sends[2].tries = <<"ECONNECTION", "EENVELOPE">>

\* C2: a contact_form or quote_request request starts the customer send and
\* the business send together, before either is awaited; 200 'Email sent
\* successfully' is returned only when both succeeded, and a send that failed
\* makes the response 500 with the message of a send that failed.
C2_BothSendsJoined ==
  TwoSendRequest =>
    /\ (sends[1].state # "none") <=> (sends[2].state # "none")
    /\ sends[1].state # "none" => sends[1].to = "submitter"
    /\ sends[2].state # "none" => sends[2].to = "contact@mechinweb.com"
    /\ (\E k \in MailCallsOf(1) \cup MailCallsOf(2) : calls[k].outcome # "pending") =>
          /\ Len(calls) >= 2
          /\ \E k \in DOMAIN calls :
               /\ k + 1 \in DOMAIN calls
               /\ calls[k].kind = "sendMail" /\ calls[k].arg = 1
               /\ calls[k + 1].kind = "sendMail" /\ calls[k + 1].arg = 2
               /\ \A j \in 1..(k - 1) : calls[j].kind # "sendMail"
    /\ (pc = "done" /\ resp.status = 200) =>
          /\ resp.message = "Email sent successfully"
          /\ \A i \in 1..2 : sends[i].state = "ok"
    /\ (\E i \in 1..2 : sends[i].state = "failed") =>
          /\ pc = "done"
          /\ resp.status = 500
          /\ \E j \in 1..2 : sends[j].state = "failed" /\ resp.error = <<sends[j].error>>

C2_Witness ==
  /\ TwoSendRequest
  /\ pc = "done"
  /\ resp.status = 500
  /\ sends[1].state = "ok"
  /\ sends[2].state = "failed"
  /\ resp.error = <<sends[2].error>>

\* C3: in every createZohoCustomer the search by email is performed only
\* when the vendor rejected the creation as a conflict (the customer already
\* exists); any other creation failure is reported without a search.
C3_SearchOnlyOnConflict ==
  \A k \in CallsOfKind({"contactFind"}) :
    \E j \in 1..(k - 1) : calls[j].kind = "contactCreate" /\ calls[j].outcome = "exists400"

\* C4: in the netlify handlers zohoIntegration, createPayment and sendEmail
\* a failure raised while a request is processed yields status 500 with
\* success = false and the failure's message, and the invocation still
\* returns a response.
C4_FailureGives500 ==
  (handler \in {"zohoIntegration", "createPayment", "sendEmailRetry", "sendEmail"}
     /\ pc = "done") =>
    /\ responses = 1
    /\ resp.status # 0
    /\ thrown # NoError =>
         /\ resp.status = 500
         /\ resp.success = "false"
         /\ resp.error = thrown.message
    /\ (req.method = "POST" /\ req.body = "invalid") =>
         resp.status = 500 /\ resp.success = "false" /\ thrown # NoError
    /\ (req.method = "POST"
          /\ IF handler \in ZohoHandlers THEN ZohoVars \ env # {} ELSE EmailVars \ env # {}) =>
         resp.status = 500 /\ resp.success = "false" /\ thrown # NoError
    /\ (calls # <<>> /\ calls[Len(calls)].kind \in VendorKinds \cup {"verify"}
          /\ calls[Len(calls)].outcome \notin {"ok", "noToken", "created", "found", "accepted"}) =>
         resp.status = 500 /\ resp.success = "false" /\ thrown # NoError
    /\ (\E i \in 1..2 : sends[i].state = "failed") =>
         resp.status = 500 /\ resp.success = "false" /\ thrown # NoError

C4_Witness ==
  /\ handler = "createPayment"
  /\ pc = "done"
  /\ thrown.message = <<"Zoho authentication failed: ", "invalid_grant">>
  /\ resp.status = 500
  /\ resp.error = <<"Zoho authentication failed: ", "invalid_grant">>

\* C5: in every Zoho handler, when one of the four Zoho configuration values
\* is unset, a request ends with status 500 and nothing is sent to the
\* vendor's token endpoint or invoicing API (stated for POST requests).
C5_MissingConfigNoVendorCall ==
  (handler \in ZohoHandlers /\ pc # "idle" /\ req.method = "POST" /\ ZohoVars \ env # {}) =>
    /\ CallsOfKind(VendorKinds) = {}
    /\ pc = "done"
    /\ resp.status = 500

InvoiceAccepted ==
  \E k \in CallsOfKind({"invoiceCreate"}) : calls[k].outcome = "accepted"

\* C6: with the configuration present, the token exchanged, the contact
\* created or found and the invoice accepted, a createPayment POST returns
\* 200 with success = true and an invoice whose invoice_id, invoice_number,
\* total and status are the vendor's and whose payment_url is
\* https://invoice.zoho.com/invoices/<invoice_id>/payment.
C6_InvoiceSummaryReturned ==
  (handler = "createPayment" /\ pc = "done" /\ InvoiceAccepted) =>
    /\ resp.status = 200
    /\ resp.success = "true"
    /\ resp.invoice.invoice_id = vendorInvoice.invoice_id
    /\ resp.invoice.invoice_number = vendorInvoice.invoice_number
    /\ resp.invoice.total = vendorInvoice.total
    /\ resp.invoice.status = vendorInvoice.status
    /\ resp.invoice.payment_url =
         <<"https://invoice.zoho.com/invoices/", vendorInvoice.invoice_id, "/payment">>

C6_Witness ==
  /\ handler = "createPayment"
  /\ pc = "done"
  /\ InvoiceAccepted
  /\ \E k \in CallsOfKind({"contactFind"}) : calls[k].outcome = "found"
  /\ vendorInvoice = [invoice_id |-> 12, invoice_number |-> "INV-B", total |-> 45,
                      status |-> "draft"]
  /\ resp.invoice.invoice_id = 12

ContactFormWithMissingField ==
  /\ handler = "sendEmailRetry"
  /\ pc # "idle"
  /\ req.method = "POST"
  /\ req.body = "full"
  /\ req.mail.type = "contact_form"
  /\ req.mail.hasData
  /\ req.mail.missing # {}

VerifySucceeded == \E k \in CallsOfKind({"verify"}) : calls[k].outcome = "ok"

C8_NoVendorWriteWithoutRequiredFields ==
  (handler = "createPayment" /\ pc # "idle" /\ req.method = "POST"
     /\ ~(HasCustomerData(req) /\ HasServiceItems(req))) =>
    /\ CallsOfKind({"contactCreate", "invoiceCreate"}) = {}
    /\ pc = "done" => resp.status = 500

\* the latest call of one of the kinds before call k (0 if there is none)
LatestBefore(k, kinds) ==
  LET before == {j \in 1..(k - 1) : calls[j].kind \in kinds}
  IN IF before = {} THEN 0 ELSE CHOOSE j \in before : \A i \in before : i <= j

\* C9: nothing is carried from one invocation to the next: every contacts or
\* invoices call is preceded, in the same invocation, by a token exchange of
\* that invocation and uses the token that exchange returned; in the netlify
\* handlers the invoice's customer is the contact obtained in the invocation.
C9_TokenPerInvocation ==
  handler \in ZohoHandlers =>
    /\ \A k \in CallsOfKind(ApiKinds) :
         LET j == LatestBefore(k, {"token"}) IN
         /\ j # 0
         /\ calls[j].outcome \in {"ok", "noToken"}
         /\ calls[k].token = calls[j].ret
         /\ calls[k].token < nextToken
    /\ \A k \in CallsOfKind({"token"}) :
         calls[k].outcome = "ok" => calls[k].ret > 0 /\ calls[k].ret < nextToken
    /\ \A k, j \in CallsOfKind({"token"}) :
         (k # j /\ calls[k].outcome = "ok" /\ calls[j].outcome = "ok") =>
           calls[k].ret # calls[j].ret
    /\ handler \in {"zohoIntegration", "createPayment"} =>
         \A k \in CallsOfKind({"invoiceCreate"}) :
           LET j == LatestBefore(k, {"contactCreate", "contactFind"}) IN
           /\ j # 0
           /\ calls[j].outcome \in {"created", "found"}
           /\ calls[k].arg = calls[j].ret

C9_Witness ==
  /\ handler = "createPayment"
  /\ invocations = 2
  /\ \E k \in CallsOfKind({"invoiceCreate"}) :
       /\ calls[k].token = 2
       /\ calls[k].arg = 102
       /\ calls[LatestBefore(k, {"token"})].ret = 2

\* C10: every invocation returns exactly one response and every outbound
\* call to the vendor (token exchange, contacts, invoices) is issued with a
\* fixed timeout, so no handler waits forever on the vendor.
C10_EveryVendorCallTimesOut ==
  /\ responses <= 1
  /\ pc = "done" => responses = 1
  /\ \A k \in CallsOfKind(VendorKinds) :
       calls[k].timeout \in {TokenTimeoutZI, TokenTimeoutCP, TokenTimeoutZT,
                             ContactsTimeout, InvoiceTimeout}

FailedTries(s) == {k \in DOMAIN s.tries : s.tries[k] # "sent"}

\* C11: sendEmailWithRetry waits only between a failed attempt and the next
\* one: failed attempt k < maxRetries is followed by a wait of 2^k seconds
\* (2 s after the first failure); there is no wait before the first attempt
\* and none after the last failed attempt.
C11_BackoffOnlyBetweenAttempts ==
  handler = "sendEmailRetry" =>
    \A i \in 1..2 :
      LET s == sends[i] IN
      /\ Len(s.delays) = Cardinality({k \in FailedTries(s) : k < DefaultMaxRetries})
      /\ \A k \in DOMAIN s.delays : s.delays[k] = (2 ^ k) * 1000
      /\ Len(s.delays) >= 1 => s.delays[1] = 2000
      /\ s.attempt <= 1 => (s.delays = <<>> \/ s.state = "waiting")
      /\ (s.attempt >= 2) => Len(s.delays) = s.attempt - 1
      /\ s.state = "waiting" =>
           /\ Len(s.tries) = s.attempt
           /\ s.attempt < DefaultMaxRetries
           /\ s.tries[s.attempt] # "sent"
           /\ Len(s.delays) = s.attempt
      /\ s.state = "failed" => Len(s.delays) = DefaultMaxRetries - 1
      /\ s.state = "ok" => Len(s.delays) = Len(s.tries) - 1

C11_Witness ==
  /\ handler = "sendEmailRetry"
  /\ sends[1].state = "failed"
  /\ sends[1].tries = <<"ECONNECTION", "ECONNECTION">>
  /\ sends[1].delays = <<2000>>
  /\ sends[2].state = "ok"
  /\ sends[2].delays = <<>>

RECURSIVE SumConverted(_, _)
SumConverted(ids, cur) ==
  IF ids = {} THEN 0
  ELSE LET x == CHOOSE x \in ids : TRUE
       IN convertCurrency(AddOnPrice(x), cur) + SumConverted(ids \ {x}, cur)

PageTotal ==
  getTotalPrice(service, userCurrency, convertedPricing, selectedPackage, quantity,
                convertedAddOns, selectedAddOns)

C14_AcceptedClickCreatesOrder ==
  (lastClick.ran /\ lastClick.accept /\ user # "none" /\ service.id # "") =>
    /\ Len(orders) = 1
    /\ orders[1].status = "pending"
    /\ orders[1].package_type = selectedPackage
    /\ orders[1].currency = userCurrency
    /\ location = [path |-> "/payment/", id |-> orders[1].id]

CombinedFlow ==
  \/ handler = "createPayment"
  \/ handler = "zohoIntegration" /\ pc # "idle" /\ req.method = "POST" /\ req.body = "full"

ContactCalls == CallsOfKind({"contactCreate", "contactFind"})

\* C15: in the combined customer-and-invoice flow the steps run in the order
\* token exchange, contact create-or-find, invoice creation: the invoice
\* request is sent only after a contact id was obtained, its customer_id is
\* that contact id, and when the customer step fails no invoice request is
\* sent.
C15_TokenContactInvoiceOrder ==
  CombinedFlow =>
    /\ Cardinality(CallsOfKind({"invoiceCreate"})) <= 1
    /\ \A k \in ContactCalls : LatestBefore(k, {"token"}) # 0
    /\ \A k \in CallsOfKind({"invoiceCreate"}) :
         LET j == LatestBefore(k, {"contactCreate", "contactFind"})
             t == LatestBefore(k, {"token"})
         IN /\ t # 0 /\ j # 0 /\ t < j
            /\ k = Len(calls)
            /\ calls[j].outcome \in {"created", "found"}
            /\ calls[j].ret \in ContactIds
            /\ calls[k].arg = calls[j].ret
            /\ calls[k].arg = customerId
    /\ (\E j \in ContactCalls :
          /\ \A i \in ContactCalls : i <= j
          /\ calls[j].outcome \notin {"pending", "created", "found"}) =>
         /\ CallsOfKind({"invoiceCreate"}) = {}
         /\ pc = "done"
         /\ resp.status = 500

C15_Witness ==
  /\ handler = "zohoIntegration"
  /\ CombinedFlow
  /\ \E k \in CallsOfKind({"invoiceCreate"}) :
       /\ calls[k].arg = 102
       /\ calls[k].outcome = "accepted"
       /\ calls[LatestBefore(k, {"contactCreate", "contactFind"})].kind = "contactCreate"

\* C16: findZohoCustomer returns the first contact of the vendor's search
\* result; when the search returns no contact or the search request fails
\* the lookup throws, the request ends with status 500 and no invoice is
\* created.
C16_FindReturnsFirstContact ==
  \A k \in CallsOfKind({"contactFind"}) :
    /\ calls[k].outcome = "found" =>
         /\ vendorContacts # <<>>
         /\ calls[k].ret = vendorContacts[1]
         /\ customerId = vendorContacts[1]
         /\ \A j \in CallsOfKind({"invoiceCreate"}) : calls[j].arg = vendorContacts[1]
         /\ (pc = "done" /\ resp.status = 200 /\ resp.customer # 0) =>
              resp.customer = vendorContacts[1]
    /\ calls[k].outcome \notin {"pending", "found"} =>
         /\ pc = "done"
         /\ resp.status = 500
         /\ thrown # NoError
         /\ CallsOfKind({"invoiceCreate"}) = {}
         /\ vendorInvoice = NoVendorInvoice

C16_Witness ==
  /\ handler = "createPayment"
  /\ vendorContacts = <<102, 101>>
  /\ customerId = 102
  /\ InvoiceAccepted
  /\ \E k \in CallsOfKind({"invoiceCreate"}) : calls[k].arg = 102

SentTries(s) == {k \in DOMAIN s.tries : s.tries[k] = "sent"}

OtherTypeRequest ==
  /\ handler \in EmailHandlers
  /\ pc # "idle"
  /\ req.method = "POST"
  /\ req.body = "full"
  /\ req.mail.type \notin EmailTypes

OkMeansAllSent ==
  (handler \in EmailHandlers /\ pc = "done" /\ req.method = "POST" /\ resp.status = 200) =>
    /\ req.mail.type \in EmailTypes
    /\ \A i \in 1..2 :
         IF i \in InitialSends(req.mail.type)
           THEN /\ sends[i].state = "ok"
                /\ Cardinality(SentTries(sends[i])) = 1
                /\ Cardinality({k \in MailCallsOf(i) : calls[k].outcome = "sent"}) = 1
                /\ sends[i].to = Recipient(req.mail.type, i)
           ELSE sends[i].state = "none" /\ MailCallsOf(i) = {}
    /\ Cardinality(InitialSends(req.mail.type)) =
         IF req.mail.type \in {"contact_form", "quote_request"} THEN 2 ELSE 1

ReachedTypeDispatch ==
  /\ ~credentialsMissing(env)
  /\ IF handler = "sendEmailRetry" THEN VerifySucceeded
     ELSE nodemailerApi = "createTransporter"

\* C17 as stated: in the sendEmail handlers a 200 response implies that the
\* emails of the requested type (two for contact_form and quote_request, one
\* for welcome_email and payment_confirmation) were each sent successfully
\* exactly once; a request with any other type gets status 500 'Invalid
\* email type' and sendMail is never called.
C17_OkMeansAllSentElseInvalidType ==
  /\ OkMeansAllSent
  /\ OtherTypeRequest =>
       /\ CallsOfKind({"sendMail"}) = {}
       /\ pc = "done" =>
            /\ resp.status = 500
            /\ Head(resp.error) \in {"Invalid email type", "Invalid email type: "}

\* C17 amended: the same, except that the error of a request with another
\* type is 'Invalid email type' only when the handler reached the dispatch
\* on the type (credentials set and the transporter created and, in the
\* retrying handler, verified); otherwise it is the earlier error.
C17_OkMeansAllSentElseRejected ==
  /\ OkMeansAllSent
  /\ OtherTypeRequest =>
       /\ CallsOfKind({"sendMail"}) = {}
       /\ \A i \in 1..2 : sends[i].state = "none"
       /\ pc = "done" =>
            /\ resp.status = 500
            /\ resp.success = "false"
            /\ IF ReachedTypeDispatch
                 THEN Head(resp.error) \in {"Invalid email type", "Invalid email type: "}
                 ELSE Head(resp.error) \notin {"Invalid email type", "Invalid email type: "}

C17_Witness ==
  /\ handler = "sendEmailRetry"
  /\ pc = "done"
  /\ resp.status = 200
  /\ req.mail.type = "quote_request"
  /\ sends[1].tries = <<"ECONNECTION", "sent">>
  /\ sends[2].tries = <<"sent">>

\* C18: in the retrying sendEmail handler no sendMail attempt is made unless
\* earlier in the invocation EMAIL_USER and EMAIL_PASSWORD were found set and
\* transporter.verify() succeeded; a missing credential or a failed
\* verification ends the request with status 500 and zero sends.
C18_NoSendBeforeVerify ==
  handler = "sendEmailRetry" =>
    /\ \A k \in CallsOfKind({"sendMail"}) :
         /\ ~credentialsMissing(env)
         /\ \E j \in 1..(k - 1) : calls[j].kind = "verify" /\ calls[j].outcome = "ok"
    /\ (pc # "idle" /\ req.method = "POST" /\ credentialsMissing(env)) =>
         /\ pc = "done"
         /\ resp.status = 500
         /\ calls = <<>>
         /\ \A i \in 1..2 : sends[i].state = "none"
    /\ \A k \in CallsOfKind({"verify"}) :
         calls[k].outcome \notin {"pending", "ok"} =>
           /\ pc = "done"
           /\ resp.status = 500
           /\ resp.error = <<"Email configuration invalid: ", calls[k].outcome>>
           /\ CallsOfKind({"sendMail"}) = {}
           /\ \A i \in 1..2 : sends[i].state = "none"

C18_Witness ==
  /\ handler = "sendEmailRetry"
  /\ req.mail.type = "welcome_email"
  /\ req.mail.hasData
  /\ \E k \in CallsOfKind({"verify"}) : calls[k].outcome = "EAUTH"
  /\ pc = "done"
  /\ resp.status = 500

\* C19: in every handler an OPTIONS request returns status 200 with an empty
\* body and CORS headers, without validating the configuration, parsing the
\* body or making any outbound call, whatever the configuration.
C19_PreflightTouchesNothing ==
  (pc # "idle" /\ req.method = "OPTIONS") =>
    /\ pc = "done"
    /\ resp.status = 200
    /\ resp.body = "empty"
    /\ CorsHeaders(handler)
    /\ calls = <<>>
    /\ thrown = NoError

\* C20: createPayment and the sendEmail handlers answer a request whose
\* method is neither POST nor OPTIONS with status 405 'Method not allowed',
\* before the configuration is validated and without any outbound call,
\* also when the configuration is missing.
C20_OnlyPostAllowed ==
  (handler \in {"createPayment", "sendEmailRetry", "sendEmail"} /\ pc # "idle"
     /\ req.method \notin {"POST", "OPTIONS"}) =>
    /\ pc = "done"
    /\ responses = 1
    /\ resp.status = 405
    /\ resp.error = <<"Method not allowed">>
    /\ calls = <<>>
    /\ thrown = NoError

C20_Witness ==
  /\ handler = "createPayment"
  /\ env = {}
  /\ pc = "done"
  /\ req.method = "GET"
  /\ resp.status = 405

\* C21: in zohoIntegration a failed token exchange is mapped to one message
\* by the vendor's status: 400 invalid_grant -> 'refresh token has expired',
\* 400 invalid_client -> 'Invalid Zoho client credentials', any other 400 ->
\* 'Zoho token error: ...', 401 -> 'Zoho authentication failed...', anything
\* else (a 200 answer without access_token included) -> 'Zoho token request
\* failed: ...'; the handler answers 500 with that message and makes no
\* contacts or invoices call.
C21_TokenErrorMapped ==
  handler = "zohoIntegration" =>
    \A k \in CallsOfKind({"token"}) :
      calls[k].outcome \notin {"pending", "ok"} =>
        LET o == calls[k].outcome IN
        /\ pc = "done"
        /\ resp.status = 500
        /\ resp.success = "false"
        /\ resp.error = thrown.message
        /\ CallsOfKind(ApiKinds) = {}
        /\ Head(resp.error) =
             CASE o = "invalid_grant" ->
                    "Zoho refresh token has expired. Please regenerate the refresh token in Zoho Developer Console."
               [] o = "invalid_client" ->
                    "Invalid Zoho client credentials. Please check ZOHO_CLIENT_ID and ZOHO_CLIENT_SECRET."
               [] o \notin {"invalid_grant", "invalid_client"} /\ StatusOf(o) = 400 ->
                    "Zoho token error: "
               [] StatusOf(o) = 401 ->
                    "Zoho authentication failed. Please check your credentials."
               [] OTHER -> "Zoho token request failed: "
        /\ o = "noToken" =>
             resp.error = <<"Zoho token request failed: ",
                            "Invalid token response: missing access_token">>
        /\ o = "other400" => resp.error = <<"Zoho token error: ", "invalid_code">>

C21_Witness ==
  /\ handler = "zohoIntegration"
  /\ pc = "done"
  /\ \E k \in CallsOfKind({"token"}) : calls[k].outcome = "invalid_client"
  /\ resp.status = 500
  /\ resp.error = <<"Invalid Zoho client credentials. Please check ZOHO_CLIENT_ID and ZOHO_CLIENT_SECRET.">>

\* C22: createZohoInvoice sends one line item per element of serviceItems,
\* in the same order, with rate = unitPrice, quantity = quantity and
\* item_total = totalPrice as given in the request (not recomputed).
C22_LineItemsCopied ==
  \A k \in CallsOfKind({"invoiceCreate"}) :
    /\ Len(calls[k].items) = Len(req.items)
    /\ \A j \in DOMAIN req.items :
         /\ calls[k].items[j].name = req.items[j].serviceName
         /\ calls[k].items[j].rate = req.items[j].unitPrice
         /\ calls[k].items[j].quantity = req.items[j].quantity
         /\ calls[k].items[j].item_total = req.items[j].totalPrice

C22_Witness ==
  /\ handler = "supabaseZoho"
  /\ req.items = <<ItemB, ItemA>>
  /\ \E k \in CallsOfKind({"invoiceCreate"}) :
       /\ Len(calls[k].items) = 2
       /\ calls[k].items[1].item_total = 25
       /\ calls[k].items[1].rate * calls[k].items[1].quantity = 21
       /\ calls[k].items[2].item_total = 20

\* C24: in every Zoho handler a contacts or invoices request is sent only
\* with a non-empty access token returned by the token exchange: when the
\* token endpoint answers successfully but without an access_token, the
\* request ends in an error and no contacts or invoices call is made.
C24_NoApiCallWithoutToken ==
  handler \in ZohoHandlers =>
    /\ \A k \in CallsOfKind(ApiKinds) : calls[k].token # 0
    /\ (\E k \in CallsOfKind({"token"}) : calls[k].outcome = "noToken") =>
         /\ CallsOfKind(ApiKinds) = {}
         /\ pc = "done"
         /\ resp.status = 500

\* --------------------------------- createZohoCustomer against a vendor that
\* keeps emails unique: it rejects the creation of a contact whose email it
\* already has with a 400 'already exists' and its search by email returns
\* the contact it has.
StoreInit ==
  /\ handler \in {"createPayment", "zohoIntegration"}
  /\ env = ZohoVars
  /\ nodemailerApi = "createTransport"
  /\ HandlersIdle
  /\ PageUnmounted
  /\ vendorStore = [e \in Emails |-> 0]
  /\ created = [e \in Emails |-> 0]
  /\ callers \in [1..MaxCallers -> {NewCaller(e) : e \in Emails}]

\* createZohoCustomer sends its creation request
CallCreate(p) ==
  /\ callers[p].pc = "start"
  /\ callers' = [callers EXCEPT ![p].pc = "creating"]
  /\ UNCHANGED <<hvars, pageVars, vendorStore, created>>

\* the vendor serves the creation request of call p (or fails with a 500)
VendorCreate(p) ==
  LET c == callers[p] IN
  /\ c.pc = "creating"
  /\ c.reply.o = "none"
  /\ \E fault \in BOOLEAN :
       IF fault
         THEN /\ callers' = [callers EXCEPT ![p].reply = [NoReply EXCEPT !.o = "500"],
                                            ![p].clean = FALSE]
              /\ UNCHANGED <<vendorStore, created>>
       ELSE IF vendorStore[c.email] = 0
         THEN /\ vendorStore' = [vendorStore EXCEPT ![c.email] = NewContactId(vendorStore)]
              /\ created' = [created EXCEPT ![c.email] = @ + 1]
              /\ callers' = [callers EXCEPT ![p].reply =
                               [NoReply EXCEPT !.o = "created",
                                               !.id = NewContactId(vendorStore)]]
         ELSE /\ callers' = [callers EXCEPT ![p].reply = [NoReply EXCEPT !.o = "exists400"]]
              /\ UNCHANGED <<vendorStore, created>>
  /\ UNCHANGED <<hvars, pageVars>>

\* createZohoCustomer after its creation request: the answer arrived or the
\* request timed out
CreateSettles(p, timedOut) ==
  LET c == callers[p]
      o == IF timedOut THEN "timeout" ELSE c.reply.o
  IN /\ c.pc = "creating"
     /\ timedOut \/ c.reply.o # "none"
     /\ callers' =
          [callers EXCEPT ![p] =
             IF o = "created"
               THEN [c EXCEPT !.pc = "resolved", !.result = c.reply.id]
             ELSE IF SearchesOnFailure(handler, o)
               THEN [c EXCEPT !.pc = "finding", !.reply = NoReply]
             ELSE [c EXCEPT !.pc = "failed", !.clean = c.clean /\ ~timedOut]]
     /\ UNCHANGED <<hvars, pageVars, vendorStore, created>>

\* the vendor serves the search by email of call p (or fails with a 500)
VendorFind(p) ==
  LET c == callers[p] IN
  /\ c.pc = "finding"
  /\ c.reply.o = "none"
  /\ \E fault \in BOOLEAN :
       callers' =
         [callers EXCEPT ![p] =
            IF fault THEN [c EXCEPT !.reply = [NoReply EXCEPT !.o = "500"], !.clean = FALSE]
            ELSE IF vendorStore[c.email] = 0
              THEN [c EXCEPT !.reply = [NoReply EXCEPT !.o = "empty"]]
            ELSE [c EXCEPT !.reply = [NoReply EXCEPT !.o = "found",
                                                     !.contacts = <<vendorStore[c.email]>>]]]
  /\ UNCHANGED <<hvars, pageVars, vendorStore, created>>

\* findZohoCustomer after its search request
FindSettles(p, timedOut) ==
  LET c == callers[p]
      o == IF timedOut THEN "timeout" ELSE c.reply.o
  IN /\ c.pc = "finding"
     /\ timedOut \/ c.reply.o # "none"
     /\ callers' =
          [callers EXCEPT ![p] =
             IF o = "found"
               THEN [c EXCEPT !.pc = "resolved", !.result = FirstContact(c.reply.contacts)]
               ELSE [c EXCEPT !.pc = "failed", !.clean = c.clean /\ ~timedOut]]
     /\ UNCHANGED <<hvars, pageVars, vendorStore, created>>

StoreNext ==
  \/ \E p \in 1..MaxCallers : CallCreate(p)
  \/ \E p \in 1..MaxCallers : VendorCreate(p)
  \/ \E p \in 1..MaxCallers : \E timedOut \in BOOLEAN : CreateSettles(p, timedOut)
  \/ \E p \in 1..MaxCallers : VendorFind(p)
  \/ \E p \in 1..MaxCallers : \E timedOut \in BOOLEAN : FindSettles(p, timedOut)

StoreSpec == StoreInit /\ [][StoreNext]_vars

\* C23: find-or-create is idempotent on the contact: against a vendor that
\* rejects a duplicate email with a 400 conflict and whose search returns
\* the existing contact, any number of sequential or concurrent
\* createZohoCustomer calls with the same email resolve to the same contact
\* id and at most one contact is created (a call fails only on a vendor
\* fault or a timeout).
C23_FindOrCreateIdempotent ==
  /\ \A e \in Emails : created[e] <= 1
  /\ \A p \in DOMAIN callers :
       /\ callers[p].pc = "resolved" =>
            /\ callers[p].result # 0
            /\ callers[p].result = vendorStore[callers[p].email]
       /\ callers[p].pc = "failed" => ~callers[p].clean
  /\ \A p, q \in DOMAIN callers :
       (callers[p].pc = "resolved" /\ callers[q].pc = "resolved"
          /\ callers[p].email = callers[q].email) =>
         callers[p].result = callers[q].result

C23_Witness ==
  /\ handler = "zohoIntegration"
  /\ \A p \in DOMAIN callers :
       /\ callers[p].email = "a@example.com"
       /\ callers[p].pc = "resolved"
       /\ callers[p].result = 101
  /\ Len(callers) >= 3
  /\ created["a@example.com"] = 1

====
